---- MODULE Spec2Model ----
(***************************************************************************)
(* The two joint scripts of the repository as one state machine:           *)
(*   hinge_joint.py  - elbow hinge: barrel + saddle, export, animation     *)
(*   saddle_joint.py - ball -> hinge -> slider chain and its animation     *)
(*                                                                         *)
(* Lengths are in tenths of a unit (6.0 is 60, 0.4 is 4), so every length  *)
(* the scripts compute is an integer.  Angles and slider offsets are exact *)
(* fractions [num, den] in lowest terms.  A rigid transform is the word of *)
(* its elementary factors (rotation about an axis, translation along Z),   *)
(* left to right as the matrices are multiplied, with identity factors     *)
(* dropped.  A mesh is its axis-aligned envelope at rest plus the word of  *)
(* the transform applied to it since it was built.                         *)
(***************************************************************************)
EXTENDS Integers, Sequences, FiniteSets, TLC

\* script     - which script runs: "hinge" (hinge_joint.py) or "chain" (saddle_joint.py)
\* pc         - the section of the script to run next; "show" once ps.show() drives
\*              the callback, "error" when an exception has ended the script
\* env        - the module's globals, by name
\* registered - the display sink: the mesh last registered under each name
\* exported   - the files written by export
\* last       - the arguments of the latest call of each step/apply method
\* log        - the DOF values the callback selected, frame by frame
VARIABLES script, pc, env, registered, exported, last, log

vars == <<script, pc, env, registered, exported, last, log>>

(* ------------------------------------------------------------------ *)
(* Bounds                                                             *)
(* ------------------------------------------------------------------ *)
MaxFrame == 325

(* ------------------------------------------------------------------ *)
(* PARAMETERS of hinge_joint.py (tenths; degrees for the angle)       *)
(* ------------------------------------------------------------------ *)
barrel_radius == 60
barrel_length == 220
saddle_wall == 30
saddle_width == 160
elbow_clearance == 4
max_angle_deg == 120
connector_radius == 50
connector_length == 180
elbow_samples == 160

(* ------------------------------------------------------------------ *)
(* PARAMETERS of saddle_joint.py (tenths; degrees for the angles)     *)
(* ------------------------------------------------------------------ *)
ball_radius == 100
stud_radius == 30
stud_length == 200
clearance == 4
socket_thickness == 30
hinge_radius == 60
hinge_length == 220
hinge_wall == 30
hinge_range_deg == 120
rail_radius == 50
rail_length == 450
carriage_length == 180
slider_clearance == 4
carriage_wall == 30
ball_range_deg == 30
chain_samples == 120
chain_cut_size == 1000
hinge_cut_offset == 500
one_unit == 10

(* ------------------------------------------------------------------ *)
(* Exact fractions                                                    *)
(* ------------------------------------------------------------------ *)
Abs(n) == IF n < 0 THEN -n ELSE n

RECURSIVE Gcd(_, _)
Gcd(a, b) == IF b = 0 THEN a ELSE Gcd(b, a % b)

\* num/den in lowest terms, den > 0
Val(n, d) ==
    LET g == Gcd(Abs(n), d)
    IN  [num |-> n \div g, den |-> d \div g]

Whole(n) == Val(n, 1)

Leq(a, b) == a.num * b.den <= b.num * a.den

(* ------------------------------------------------------------------ *)
(* TRANSFORM HELPERS                                                  *)
(* ------------------------------------------------------------------ *)
\* np.eye(4)
Identity == <<>>

\* rotation_matrix(radians(angle_deg), axis): a zero angle is the identity
R(angle_deg, axis) ==
    IF angle_deg.num = 0 THEN Identity
    ELSE <<[op |-> "R", axis |-> axis, num |-> angle_deg.num, den |-> angle_deg.den]>>

\* translation_matrix(offset), offset = <<0, 0, t>>: a zero offset is the identity
T(offset) ==
    IF offset[3].num = 0 THEN Identity
    ELSE <<[op |-> "T", axis |-> "Z", num |-> offset[3].num, den |-> offset[3].den]>>

\* a @ b
MatMul(a, b) == a \o b

QuarterTurnY == R(Whole(90), "Y")

(* ------------------------------------------------------------------ *)
(* Primitive solids and mesh operations                               *)
(* ------------------------------------------------------------------ *)
Ext(xl, xh, yl, yh, zl, zh) ==
    [xlo |-> xl, xhi |-> xh, ylo |-> yl, yhi |-> yh, zlo |-> zl, zhi |-> zh]

\* trimesh.primitives.Cylinder: centred at the origin, axis Z
Cylinder(radius, height) ==
    [kind |-> "cylinder", axis |-> "Z", r |-> radius, bore |-> 0, empty |-> FALSE,
     ext |-> Ext(-radius, radius, -radius, radius, -(height \div 2), height \div 2),
     pose |-> Identity]

\* trimesh.primitives.Sphere: centred at the origin
Sphere(radius) ==
    [kind |-> "sphere", axis |-> "-", r |-> radius, bore |-> 0, empty |-> FALSE,
     ext |-> Ext(-radius, radius, -radius, radius, -radius, radius),
     pose |-> Identity]

\* trimesh.creation.box(extents): centred at the origin
Box(extents) ==
    [kind |-> "box", axis |-> "-", r |-> 0, bore |-> 0, empty |-> FALSE,
     ext |-> Ext(-(extents[1] \div 2), extents[1] \div 2,
                 -(extents[2] \div 2), extents[2] \div 2,
                 -(extents[3] \div 2), extents[3] \div 2),
     pose |-> Identity]

\* mesh.apply_translation(<<dx, dy, dz>>), in place
apply_translation(m, d) ==
    [m EXCEPT !.ext = Ext(@.xlo + d[1], @.xhi + d[1], @.ylo + d[2], @.yhi + d[2],
                          @.zlo + d[3], @.zhi + d[3])]

Turned(axis) == IF axis = "Z" THEN "X" ELSE IF axis = "X" THEN "Z" ELSE axis

\* mesh.apply_transform(tf), in place.  The quarter turn about Y used while
\* building, (x, y, z) -> (z, y, -x), is carried out on the envelope; any other
\* transform is multiplied onto the mesh's pose from the left.
apply_transform(m, tf) ==
    IF tf = QuarterTurnY /\ m.pose = Identity
    THEN [m EXCEPT !.axis = Turned(@),
                   !.ext = Ext(@.zlo, @.zhi, @.ylo, @.yhi, -(@.xhi), -(@.xlo))]
    ELSE [m EXCEPT !.pose = MatMul(tf, @)]

\* mesh.copy()
Copy(m) == m

Min(a, b) == IF a <= b THEN a ELSE b
Max(a, b) == IF a >= b THEN a ELSE b

\* trimesh.util.concatenate([a, b])
concatenate(a, b) ==
    [kind |-> "concat", axis |-> "-", r |-> 0, bore |-> 0, empty |-> a.empty /\ b.empty,
     ext |-> Ext(Min(a.ext.xlo, b.ext.xlo), Max(a.ext.xhi, b.ext.xhi),
                 Min(a.ext.ylo, b.ext.ylo), Max(a.ext.yhi, b.ext.yhi),
                 Min(a.ext.zlo, b.ext.zlo), Max(a.ext.zhi, b.ext.zhi)),
     pose |-> Identity]

Covers(e, f) ==
    /\ e.xlo <= f.xlo /\ f.xhi <= e.xhi
    /\ e.ylo <= f.ylo /\ f.yhi <= e.yhi
    /\ e.zlo <= f.zlo /\ f.zhi <= e.zhi

CoversX(e, f) == e.xlo <= f.xlo /\ f.xhi <= e.xhi
CoversY(e, f) == e.ylo <= f.ylo /\ f.yhi <= e.yhi
CoversZ(e, f) == e.zlo <= f.zlo /\ f.zhi <= e.zhi

\* what a box leaves of an envelope it spans across two axes
Trim(e, b) ==
    IF CoversX(b, e) /\ CoversZ(b, e) /\ b.ylo <= e.ylo /\ b.yhi < e.yhi
        THEN [e EXCEPT !.ylo = Max(e.ylo, b.yhi)]
    ELSE IF CoversX(b, e) /\ CoversZ(b, e) /\ b.yhi >= e.yhi /\ b.ylo > e.ylo
        THEN [e EXCEPT !.yhi = Min(e.yhi, b.ylo)]
    ELSE IF CoversX(b, e) /\ CoversY(b, e) /\ b.zlo <= e.zlo /\ b.zhi < e.zhi
        THEN [e EXCEPT !.zlo = Max(e.zlo, b.zhi)]
    ELSE IF CoversX(b, e) /\ CoversY(b, e) /\ b.zhi >= e.zhi /\ b.zlo > e.zlo
        THEN [e EXCEPT !.zhi = Min(e.zhi, b.zlo)]
    ELSE e

\* a.difference(b) of the mesh engine, on envelopes.  b is either a box or a
\* solid of a's kind on a's axis and centre line, so b holds a exactly when b's
\* envelope covers a's: then nothing is left.  A box takes away the side it
\* spans; a coaxial solid bores a.
difference(a, b) ==
    IF a.empty THEN a
    ELSE IF Covers(b.ext, a.ext) THEN [a EXCEPT !.empty = TRUE]
    ELSE IF b.kind = "box" THEN [a EXCEPT !.ext = Trim(@, b.ext)]
    ELSE [a EXCEPT !.kind = "shell", !.bore = b.r]

(* ------------------------------------------------------------------ *)
(* Module globals                                                     *)
(* ------------------------------------------------------------------ *)
NoGlobals == [k \in {} |-> 0]

Bind(e, k, v) == [j \in (DOMAIN e) \cup {k} |-> IF j = k THEN v ELSE e[j]]

Has(k) == k \in DOMAIN env

(* ------------------------------------------------------------------ *)
(* np.linspace and the frame index                                    *)
(* ------------------------------------------------------------------ *)
\* np.linspace(start, stop, num)[i] = start + i * (stop - start) / (num - 1)
linspace(start, stop, num, i) == Val(start * (num - 1) + i * (stop - start), num - 1)

\* the wrap taken one short of the sequence's length
WrapIndex_short(frame, len) == frame % (len - 1)

\* frame % len(seq)
WrapIndex(frame, len) == frame % len


(* ------------------------------------------------------------------ *)
(* The mesh engine on an empty result                                 *)
(* ------------------------------------------------------------------ *)
\* difference() with nothing left either hands back a mesh with no faces or
\* raises, depending on the engine installed: both are outcomes.
EngineRaises(results) ==
    IF \E m \in results : m.empty THEN BOOLEAN ELSE {FALSE}

(* ------------------------------------------------------------------ *)
(* hinge_joint.py                                                     *)
(* ------------------------------------------------------------------ *)
elbow_barrel == apply_transform(Cylinder(barrel_radius, barrel_length), QuarterTurnY)

elbow_barrel_connector ==
    apply_translation(Cylinder(connector_radius, connector_length),
                      <<0, 0, connector_length \div 2>>)

elbow_barrel_part == concatenate(elbow_barrel, elbow_barrel_connector)

outer_radius == barrel_radius + elbow_clearance + saddle_wall
inner_radius == barrel_radius + elbow_clearance

elbow_outer == apply_transform(Cylinder(outer_radius, saddle_width), QuarterTurnY)
elbow_inner == apply_transform(Cylinder(inner_radius, saddle_width + one_unit), QuarterTurnY)

cut_box ==
    apply_translation(Box(<<outer_radius * 3, outer_radius * 3, outer_radius * 3>>),
                      <<0, -((outer_radius * 15) \div 10), 0>>)

elbow_shell == difference(elbow_outer, elbow_inner)
saddle == difference(elbow_shell, cut_box)

\* self.angles[i]
elbow_angles(i) == linspace(-(max_angle_deg \div 2), max_angle_deg \div 2, elbow_samples, i)

\* ElbowHingeAnimator.__init__
ElbowHingeAnimator(fixed, moving) ==
    [fixed |-> fixed, moving0 |-> moving, moving |-> Copy(moving), frame |-> 0]

\* the part of ElbowHingeAnimator.step that poses the barrel
ElbowPose(self, angle) ==
    [self EXCEPT !.moving = apply_transform(Copy(self.moving0), R(angle, "X"))]

\* the globals bound by each section of the script
BarrelGlobals(e) ==
    Bind(Bind(Bind(e, "barrel", elbow_barrel), "barrel_connector", elbow_barrel_connector),
         "barrel_part", elbow_barrel_part)

SaddleOperands(e) ==
    Bind(Bind(Bind(Bind(Bind(e, "outer_radius", outer_radius),
                        "inner_radius", inner_radius),
                   "outer", elbow_outer),
              "inner", elbow_inner),
         "cut_box", cut_box)

SaddleGlobals(e) == Bind(Bind(SaddleOperands(e), "saddle", saddle), "saddle_part", saddle)

AnimGlobals(e) == Bind(e, "anim", ElbowHingeAnimator(e["saddle_part"], e["barrel_part"]))

HingeBuildBarrel ==
    /\ script = "hinge" /\ pc = "barrel"
    /\ env' = BarrelGlobals(env)
    /\ pc' = "saddle"
    /\ UNCHANGED <<script, registered, exported, last, log>>

HingeBuildSaddle ==
    /\ script = "hinge" /\ pc = "saddle"
    /\ \E raises \in EngineRaises({elbow_shell, saddle}) :
         IF raises
         THEN /\ env' = SaddleOperands(env)
              /\ pc' = "error"
         ELSE /\ env' = SaddleGlobals(env)
              /\ pc' = "export"
    /\ UNCHANGED <<script, registered, exported, last, log>>

HingeExport ==
    /\ script = "hinge" /\ pc = "export"
    /\ exported' = exported \cup {"elbow_hinge_barrel.obj", "elbow_hinge_saddle.obj"}
    /\ pc' = "setup"
    /\ UNCHANGED <<script, env, registered, last, log>>

HingeSetup ==
    /\ script = "hinge" /\ pc = "setup"
    /\ env' = AnimGlobals(env)
    /\ pc' = "show"
    /\ UNCHANGED <<script, registered, exported, last, log>>

\* ElbowHingeAnimator.step, the callback of every display tick
ElbowStep ==
    /\ script = "hinge" /\ pc = "show"
    /\ env["anim"].frame < MaxFrame
    /\ LET self == env["anim"]
           angle == elbow_angles(WrapIndex(self.frame, elbow_samples))
           posed == ElbowPose(self, angle)
       IN  /\ env' = Bind(env, "anim", [posed EXCEPT !.frame = @ + 1])
           /\ registered' = Bind(Bind(registered, "saddle", posed.fixed),
                                 "barrel", posed.moving)
           /\ last' = Bind(last, "anim.step", <<angle>>)
           /\ log' = Append(log, [frame |-> self.frame, angle |-> angle])
    /\ UNCHANGED <<script, pc, exported>>


(* ------------------------------------------------------------------ *)
(* saddle_joint.py: geometry                                          *)
(* ------------------------------------------------------------------ *)
ball == Sphere(ball_radius)

stud ==
    apply_translation(Cylinder(stud_radius, stud_length),
                      <<0, 0, stud_length \div 2 + ball_radius>>)

ball_part == concatenate(ball, stud)

socket_outer == Sphere(ball_radius + clearance + socket_thickness)
socket_inner == Sphere(ball_radius + clearance)

socket_cut ==
    apply_translation(Box(<<chain_cut_size, chain_cut_size, chain_cut_size>>),
                      <<0, 0, ball_radius>>)

socket_shell == difference(socket_outer, socket_inner)
socket == difference(socket_shell, socket_cut)

barrel == apply_transform(Cylinder(hinge_radius, hinge_length), QuarterTurnY)

hinge_connector ==
    apply_translation(Cylinder(stud_radius, stud_length), <<0, 0, stud_length \div 2>>)

hinge_moving == concatenate(barrel, hinge_connector)

hinge_outer ==
    apply_transform(Cylinder(hinge_radius + slider_clearance + hinge_wall, hinge_length),
                    QuarterTurnY)
hinge_inner ==
    apply_transform(Cylinder(hinge_radius + slider_clearance, hinge_length + one_unit),
                    QuarterTurnY)

hinge_cut ==
    apply_translation(Box(<<chain_cut_size, chain_cut_size, chain_cut_size>>),
                      <<0, -hinge_cut_offset, 0>>)

hinge_shell == difference(hinge_outer, hinge_inner)
hinge_fixed == difference(hinge_shell, hinge_cut)

rail == apply_translation(Cylinder(rail_radius, rail_length), <<0, 0, rail_length \div 2>>)

carriage_outer ==
    apply_translation(Cylinder(rail_radius + carriage_wall, carriage_length),
                      <<0, 0, carriage_length \div 2>>)
carriage_inner ==
    apply_translation(Cylinder(rail_radius + slider_clearance, carriage_length + one_unit),
                      <<0, 0, (carriage_length + one_unit) \div 2>>)

carriage == difference(carriage_outer, carriage_inner)

(* ------------------------------------------------------------------ *)
(* saddle_joint.py: JOINT CLASSES                                     *)
(* ------------------------------------------------------------------ *)
\* BallJoint.__init__
BallJoint(mesh) ==
    [mesh0 |-> mesh, mesh |-> Copy(mesh), transform |-> Identity,
     child_frame |-> T(<<Whole(0), Whole(0), Whole(ball_radius + stud_length)>>)]

\* BallJoint.apply
BallJoint_apply(self, ax, ay) ==
    LET tf == MatMul(R(ax, "X"), R(ay, "Y"))
    IN  [self EXCEPT !.transform = tf,
                     !.mesh = apply_transform(Copy(self.mesh0), tf)]

\* HingeJoint.__init__
HingeJoint(fixed, moving) ==
    [fixed |-> fixed, moving0 |-> moving, moving |-> Copy(moving)]

\* apply without the copy: the template itself is transformed
HingeJoint_apply_nocopy(self, parent_tf, angle) ==
    LET m == apply_transform(self.moving0, MatMul(parent_tf, R(angle, "X")))
    IN  [self EXCEPT !.moving0 = m, !.moving = m]

\* HingeJoint.apply
HingeJoint_apply(self, parent_tf, angle) ==
    [self EXCEPT !.moving = apply_transform(Copy(self.moving0),
                                            MatMul(parent_tf, R(angle, "X")))]

\* SliderJoint.__init__
SliderJoint(rail_, carriage_) ==
    [rail |-> rail_, carriage0 |-> carriage_, carriage |-> Copy(carriage_)]

\* SliderJoint.apply
SliderJoint_apply(self, parent_tf, t) ==
    [self EXCEPT !.carriage = apply_transform(Copy(self.carriage0),
                                              MatMul(parent_tf, T(<<Whole(0), Whole(0), t>>)))]

(* ------------------------------------------------------------------ *)
(* saddle_joint.py: the precomputed sequences and animate's locals    *)
(* ------------------------------------------------------------------ *)
angles(i) == linspace(-ball_range_deg, ball_range_deg, chain_samples, i)
hinge_angles(i) ==
    linspace(-(hinge_range_deg \div 2), hinge_range_deg \div 2, chain_samples, i)
\* the travel taken as the whole rail
slide_vals_whole_rail(i) == linspace(0, rail_length, chain_samples, i)

slide_vals(i) == linspace(0, rail_length - carriage_length, chain_samples, i)

\* the attachment offset applied before the ball's rotation
hinge_parent_tf_offset_first(bj) == MatMul(bj.child_frame, bj.transform)

\* hinge_parent_tf = ball_joint.transform @ ball_joint.child_frame
hinge_parent_tf(bj) == MatMul(bj.transform, bj.child_frame)

\* slider_parent_tf = hinge_parent_tf @ R(hinge_angle, [1, 0, 0])
slider_parent_tf(hptf, hinge_angle) == MatMul(hptf, R(hinge_angle, "X"))

\* HingeJoint has no child_frame: animate hands the hinge's world transform to
\* the slider as it is
hinge_child_frame == Identity

\* the DOF values animate reads at a frame
Select(frame) ==
    [frame |-> frame,
     ax |-> angles(WrapIndex(frame, chain_samples)),
     ay |-> angles(WrapIndex(frame * 2, chain_samples)),
     hinge_angle |-> hinge_angles(WrapIndex(frame, chain_samples)),
     slide |-> slide_vals(WrapIndex(frame, chain_samples))]

(* ------------------------------------------------------------------ *)
(* saddle_joint.py: the script                                        *)
(* ------------------------------------------------------------------ *)
\* the globals bound by each section of the script
BallOperands(e) ==
    Bind(Bind(Bind(Bind(Bind(Bind(e, "ball", ball), "stud", stud), "ball_part", ball_part),
                   "outer", socket_outer),
              "inner", socket_inner),
         "cut", socket_cut)

BallGlobals(e) == Bind(BallOperands(e), "socket", socket)

HingeOperands(e) ==
    Bind(Bind(Bind(Bind(Bind(Bind(e, "barrel", barrel), "hinge_connector", hinge_connector),
                        "hinge_moving", hinge_moving),
                   "outer", hinge_outer),
              "inner", hinge_inner),
         "cut", hinge_cut)

HingeGlobals(e) == Bind(HingeOperands(e), "hinge_fixed", hinge_fixed)

SliderOperands(e) ==
    Bind(Bind(Bind(e, "rail", rail), "outer", carriage_outer), "inner", carriage_inner)

SliderGlobals(e) == Bind(SliderOperands(e), "carriage", carriage)

JointGlobals(e) ==
    Bind(Bind(Bind(Bind(e, "ball_joint", BallJoint(e["ball_part"])),
                   "hinge_joint", HingeJoint(e["hinge_fixed"], e["hinge_moving"])),
              "slider_joint", SliderJoint(e["rail"], e["carriage"])),
         "frame", 0)

ChainBuildBall ==
    /\ script = "chain" /\ pc = "ball"
    /\ \E raises \in EngineRaises({socket_shell, socket}) :
         IF raises
         THEN /\ env' = BallOperands(env)
              /\ pc' = "error"
         ELSE /\ env' = BallGlobals(env)
              /\ pc' = "hinge"
    /\ UNCHANGED <<script, registered, exported, last, log>>

ChainBuildHinge ==
    /\ script = "chain" /\ pc = "hinge"
    /\ \E raises \in EngineRaises({hinge_shell, hinge_fixed}) :
         IF raises
         THEN /\ env' = HingeOperands(env)
              /\ pc' = "error"
         ELSE /\ env' = HingeGlobals(env)
              /\ pc' = "slider"
    /\ UNCHANGED <<script, registered, exported, last, log>>

ChainBuildSlider ==
    /\ script = "chain" /\ pc = "slider"
    /\ \E raises \in EngineRaises({carriage}) :
         IF raises
         THEN /\ env' = SliderOperands(env)
              /\ pc' = "error"
         ELSE /\ env' = SliderGlobals(env)
              /\ pc' = "setup"
    /\ UNCHANGED <<script, registered, exported, last, log>>

ChainSetup ==
    /\ script = "chain" /\ pc = "setup"
    /\ env' = JointGlobals(env)
    /\ pc' = "show"
    /\ UNCHANGED <<script, registered, exported, last, log>>

\* animate, the callback of every display tick
ChainAnimate ==
    /\ script = "chain" /\ pc = "show"
    /\ env["frame"] < MaxFrame
    /\ LET sel == Select(env["frame"])
           bj == BallJoint_apply(env["ball_joint"], sel.ax, sel.ay)
           hptf == hinge_parent_tf(bj)
           hj == HingeJoint_apply(env["hinge_joint"], hptf, sel.hinge_angle)
           sptf == slider_parent_tf(hptf, sel.hinge_angle)
           sj == SliderJoint_apply(env["slider_joint"], sptf, sel.slide)
       IN  /\ env' = Bind(Bind(Bind(Bind(env, "ball_joint", bj), "hinge_joint", hj),
                               "slider_joint", sj),
                          "frame", env["frame"] + 1)
           /\ registered' =
                Bind(Bind(Bind(Bind(Bind(Bind(registered, "socket", env["socket"]),
                                         "ball", bj.mesh),
                                    "hinge_fixed", hj.fixed),
                               "hinge_moving", hj.moving),
                          "rail", sj.rail),
                     "carriage", sj.carriage)
           /\ last' = Bind(Bind(Bind(last, "ball_joint.apply", <<sel.ax, sel.ay>>),
                                "hinge_joint.apply", <<hptf, sel.hinge_angle>>),
                           "slider_joint.apply", <<sptf, sel.slide>>)
           /\ log' = Append(log, sel)
    /\ UNCHANGED <<script, pc, exported>>

(* ------------------------------------------------------------------ *)
(* The scripts, run from their first line                             *)
(* ------------------------------------------------------------------ *)
Init ==
    /\ script \in {"hinge", "chain"}
    /\ pc = IF script = "hinge" THEN "barrel" ELSE "ball"
    /\ env = NoGlobals
    /\ registered = NoGlobals
    /\ exported = {}
    /\ last = NoGlobals
    /\ log = <<>>

Next ==
    \/ HingeBuildBarrel
    \/ HingeBuildSaddle
    \/ HingeExport
    \/ HingeSetup
    \/ ElbowStep
    \/ ChainBuildBall
    \/ ChainBuildHinge
    \/ ChainBuildSlider
    \/ ChainSetup
    \/ ChainAnimate

Spec == Init /\ [][Next]_vars


(* ------------------------------------------------------------------ *)
(* The joint objects driven call by call                              *)
(* ------------------------------------------------------------------ *)
\* the globals once each script has reached ps.show() (no engine failure)
ElbowGlobals == AnimGlobals(SaddleGlobals(BarrelGlobals(NoGlobals)))

ChainGlobals == JointGlobals(SliderGlobals(HingeGlobals(BallGlobals(NoGlobals))))

\* arguments a caller may hand to the apply methods
ApiAngles == {Whole(-45), Whole(0), Whole(30)}
ApiFrames ==
    {Identity,
     T(<<Whole(0), Whole(0), Whole(ball_radius + stud_length)>>),
     MatMul(R(Whole(30), "X"), T(<<Whole(0), Whole(0), Whole(ball_radius + stud_length)>>))}
ApiOffsets ==
    {Whole(-one_unit), Whole(0), Whole(rail_length - carriage_length),
     Whole(rail_length - carriage_length + one_unit)}

ApiBallApply ==
    /\ script = "chain" /\ pc = "show"
    /\ \E ax \in ApiAngles, ay \in ApiAngles :
         /\ env' = Bind(env, "ball_joint", BallJoint_apply(env["ball_joint"], ax, ay))
         /\ last' = Bind(last, "ball_joint.apply", <<ax, ay>>)
    /\ UNCHANGED <<script, pc, registered, exported, log>>

ApiHingeApply ==
    /\ script = "chain" /\ pc = "show"
    /\ \E parent_tf \in ApiFrames, angle \in ApiAngles :
         /\ env' = Bind(env, "hinge_joint",
                        HingeJoint_apply(env["hinge_joint"], parent_tf, angle))
         /\ last' = Bind(last, "hinge_joint.apply", <<parent_tf, angle>>)
    /\ UNCHANGED <<script, pc, registered, exported, log>>

ApiSliderApply ==
    /\ script = "chain" /\ pc = "show"
    /\ \E parent_tf \in ApiFrames, t \in ApiOffsets :
         /\ env' = Bind(env, "slider_joint",
                        SliderJoint_apply(env["slider_joint"], parent_tf, t))
         /\ last' = Bind(last, "slider_joint.apply", <<parent_tf, t>>)
    /\ UNCHANGED <<script, pc, registered, exported, log>>

InitApi ==
    /\ script \in {"hinge", "chain"}
    /\ pc = "show"
    /\ env = IF script = "hinge" THEN ElbowGlobals ELSE ChainGlobals
    /\ registered = NoGlobals
    /\ exported = {}
    /\ last = NoGlobals
    /\ log = <<>>

NextApi ==
    \/ ElbowStep
    \/ ApiBallApply
    \/ ApiHingeApply
    \/ ApiSliderApply

SpecApi == InitApi /\ [][NextApi]_vars


(* ------------------------------------------------------------------ *)
(* Properties                                                         *)
(* ------------------------------------------------------------------ *)
Latest == log[Len(log)]

Stepped == pc = "show" /\ log # <<>>

Called(m) == m \in DOMAIN last

\* C1: the driver is periodic in the frame counter: the DOF values selected at
\* frame f + L are those selected at frame f, L the length of the precomputed
\* sequence (160 in the hinge script, 120 in the chain, ay included).
C1_Periodic ==
    /\ (script = "hinge" /\ Len(log) > elbow_samples) =>
          /\ Latest.frame = log[Len(log) - elbow_samples].frame + elbow_samples
          /\ Latest.angle = log[Len(log) - elbow_samples].angle
    /\ (script = "chain" /\ Len(log) > chain_samples) =>
          LET was == log[Len(log) - chain_samples]
          IN  /\ Latest.frame = was.frame + chain_samples
              /\ Latest.ax = was.ax
              /\ Latest.ay = was.ay
              /\ Latest.hinge_angle = was.hinge_angle
              /\ Latest.slide = was.slide

\* the hinge script has just run frame 160 and selected the frame-0 angle again
C1_Witness ==
    /\ script = "hinge"
    /\ Len(log) = elbow_samples + 1
    /\ Latest.frame = elbow_samples
    /\ log[1].frame = 0
    /\ Latest.angle = log[1].angle
    /\ log[2].angle # log[1].angle

\* what a posed mesh must be: the template with exactly this transform applied
Posed(template, tf) == [template EXCEPT !.pose = tf]

\* C2: after any sequence of step/apply calls every joint's posed solid is its
\* construction-time template transformed by the transform of the latest call
\* alone, and the stored template is the one built at construction.
C2_PoseFromTemplate ==
    /\ script = "hinge" =>
          LET a == env["anim"]
          IN  /\ a.moving0 = elbow_barrel_part
              /\ a.moving = IF Called("anim.step")
                            THEN Posed(elbow_barrel_part, R(last["anim.step"][1], "X"))
                            ELSE elbow_barrel_part
    /\ script = "chain" =>
          LET bj == env["ball_joint"]
              hj == env["hinge_joint"]
              sj == env["slider_joint"]
          IN  /\ bj.mesh0 = ball_part
              /\ hj.moving0 = hinge_moving
              /\ sj.carriage0 = carriage
              /\ bj.mesh =
                   IF Called("ball_joint.apply")
                   THEN Posed(ball_part, R(last["ball_joint.apply"][1], "X")
                                         \o R(last["ball_joint.apply"][2], "Y"))
                   ELSE ball_part
              /\ hj.moving =
                   IF Called("hinge_joint.apply")
                   THEN Posed(hinge_moving, last["hinge_joint.apply"][1]
                                            \o R(last["hinge_joint.apply"][2], "X"))
                   ELSE hinge_moving
              /\ sj.carriage =
                   IF Called("slider_joint.apply")
                   THEN Posed(carriage, last["slider_joint.apply"][1]
                                        \o T(<<Whole(0), Whole(0), last["slider_joint.apply"][2]>>))
                   ELSE carriage

\* every joint of the chain has been posed, the hinge back at its rest pose
\* after having been called
C2_Witness ==
    /\ script = "chain"
    /\ Called("ball_joint.apply") /\ Called("hinge_joint.apply")
    /\ Called("slider_joint.apply")
    /\ env["ball_joint"].mesh.pose # Identity
    /\ env["slider_joint"].carriage.pose # Identity
    /\ env["hinge_joint"].moving = hinge_moving

InRange(v, lo, hi) == Leq(Whole(lo), v) /\ Leq(v, Whole(hi))

\* C3: every DOF value the driver hands to a joint lies in the joint's range:
\* ball angles in [-30, 30], hinge angles in [-range/2, range/2], slider offset
\* in [0, rail_length - carriage_length], so the carriage stays on the rail.
C3_DofInRange ==
    /\ (script = "hinge" /\ Stepped) =>
          InRange(last["anim.step"][1], -(max_angle_deg \div 2), max_angle_deg \div 2)
    /\ (script = "chain" /\ Stepped) =>
          LET t == last["slider_joint.apply"][2]
              sj == env["slider_joint"]
          IN  /\ InRange(last["ball_joint.apply"][1], -ball_range_deg, ball_range_deg)
              /\ InRange(last["ball_joint.apply"][2], -ball_range_deg, ball_range_deg)
              /\ InRange(last["hinge_joint.apply"][2],
                         -(hinge_range_deg \div 2), hinge_range_deg \div 2)
              /\ InRange(t, 0, rail_length - carriage_length)
              /\ Leq(Whole(sj.rail.ext.zlo), Val(sj.carriage0.ext.zlo * t.den + t.num, t.den))
              /\ Leq(Val(sj.carriage0.ext.zhi * t.den + t.num, t.den), Whole(sj.rail.ext.zhi))

\* the chain at the far end of every range: the carriage's end on the rail's end
C3_Witness ==
    /\ script = "chain" /\ Stepped
    /\ Latest.frame = chain_samples - 1
    /\ last["slider_joint.apply"][2] = Whole(rail_length - carriage_length)
    /\ last["ball_joint.apply"][1] = Whole(ball_range_deg)
    /\ last["hinge_joint.apply"][2] = Whole(hinge_range_deg \div 2)

\* C4: in the chain each joint's world transform is parent_world . local, and
\* the next joint's parent_world is that . child_attachment_frame: the hinge is
\* posed by R(ax,X) . R(ay,Y) . child_frame . R(hinge_angle,X), the carriage by
\* (hinge world . hinge child frame) . T(slide along Z).
C4_ChainOrder ==
    (script = "chain" /\ Stepped) =>
        LET bj == env["ball_joint"]
            ball_world == R(Latest.ax, "X") \o R(Latest.ay, "Y")
            attach == T(<<Whole(0), Whole(0), Whole(ball_radius + stud_length)>>)
            hinge_world == (ball_world \o attach) \o R(Latest.hinge_angle, "X")
        IN  /\ bj.transform = ball_world
            /\ bj.mesh.pose = ball_world
            /\ bj.child_frame = attach
            /\ last["hinge_joint.apply"][1] = ball_world \o attach
            /\ env["hinge_joint"].moving.pose = hinge_world
            /\ last["slider_joint.apply"][1] = hinge_world \o hinge_child_frame
            /\ env["slider_joint"].carriage.pose =
                 (hinge_world \o hinge_child_frame)
                 \o T(<<Whole(0), Whole(0), Latest.slide>>)

\* frame 1: all four DOFs are non-zero, so the carriage's transform has five factors
C4_Witness ==
    /\ script = "chain" /\ Stepped
    /\ Latest.frame = 1
    /\ Len(env["slider_joint"].carriage.pose) = 5
    /\ env["slider_joint"].carriage.pose[3].op = "T"
    /\ env["slider_joint"].carriage.pose[1].axis = "X"
    /\ env["slider_joint"].carriage.pose[2].axis = "Y"

\* C5: in the chain the fixed part of each non-root joint (the hinge's cradle,
\* the slider's rail) reaches the display sink posed by the parent_world its
\* joint receives, the frame its moving part is posed in.
C5_FixedPartsFollowParent ==
    (script = "chain" /\ Stepped) =>
        /\ registered["hinge_fixed"].pose = last["hinge_joint.apply"][1]
        /\ registered["rail"].pose = last["slider_joint.apply"][1]

\* which shell the globals outer and inner belong to
ElbowShellBuilt == script = "hinge" /\ Has("inner")
BallShellBuilt == script = "chain" /\ Has("inner") /\ ~Has("barrel")
HingeShellBuilt == script = "chain" /\ Has("barrel") /\ Has("inner") /\ ~Has("rail")
CarriageShellBuilt == script = "chain" /\ Has("rail") /\ Has("inner")

FitsAround(male_radius, gap, wall) ==
    /\ gap > 0
    /\ env["inner"].r - male_radius = gap
    /\ env["outer"].r - env["inner"].r = wall

\* C6: for every joint type inner_radius - male_radius = clearance > 0 and
\* outer_radius - inner_radius = wall thickness, with the joint's own constants;
\* the elbow hinge gives inner_radius 6.4 and outer_radius 9.4.
C6_ShellRadii ==
    /\ ElbowShellBuilt =>
          /\ FitsAround(barrel_radius, elbow_clearance, saddle_wall)
          /\ env["inner_radius"] = env["inner"].r /\ env["inner_radius"] = 64
          /\ env["outer_radius"] = env["outer"].r /\ env["outer_radius"] = 94
    /\ BallShellBuilt => FitsAround(ball_radius, clearance, socket_thickness)
    /\ HingeShellBuilt => FitsAround(hinge_radius, slider_clearance, hinge_wall)
    /\ CarriageShellBuilt => FitsAround(rail_radius, slider_clearance, carriage_wall)

\* the box takes all of the shell below its top face and nothing above it
CutsLowerY(shell, box, part) ==
    /\ CoversX(box.ext, shell.ext) /\ CoversZ(box.ext, shell.ext)
    /\ box.ext.ylo <= shell.ext.ylo
    /\ shell.ext.ylo < box.ext.yhi /\ box.ext.yhi < shell.ext.yhi
    /\ ~part.empty
    /\ part.ext.ylo = box.ext.yhi /\ part.ext.yhi = shell.ext.yhi

\* the box takes all of the shell above its bottom face and nothing below it
CutsUpperZ(shell, box, part) ==
    /\ CoversX(box.ext, shell.ext) /\ CoversY(box.ext, shell.ext)
    /\ box.ext.zhi >= shell.ext.zhi
    /\ shell.ext.zlo < box.ext.zlo /\ box.ext.zlo < shell.ext.zhi
    /\ ~part.empty
    /\ part.ext.zhi = box.ext.zlo /\ part.ext.zlo = shell.ext.zlo

\* C7: each trimming box removes the whole of the shell in the half-space to be
\* removed and leaves the shell in the opposite one, so the cradle is non-empty
\* and open on one side: the hinge cradles lose their lower half, the ball
\* socket its top.
C7_CradleCuts ==
    /\ (script = "hinge" /\ Has("saddle")) =>
          CutsLowerY(env["outer"], env["cut_box"], env["saddle"])
    /\ (script = "chain" /\ Has("socket") /\ ~Has("barrel")) =>
          CutsUpperZ(env["outer"], env["cut"], env["socket"])
    /\ (script = "chain" /\ Has("hinge_fixed") /\ ~Has("rail")) =>
          CutsLowerY(env["outer"], env["cut"], env["hinge_fixed"])

\* some boolean difference of the script so far left nothing
YieldedEmpty ==
    \/ ElbowShellBuilt
         /\ difference(difference(env["outer"], env["inner"]), env["cut_box"]).empty
    \/ script = "chain" /\ Has("cut") /\ ~Has("barrel")
         /\ difference(difference(env["outer"], env["inner"]), env["cut"]).empty
    \/ script = "chain" /\ Has("socket") /\ env["socket"].empty
    \/ script = "chain" /\ Has("hinge_fixed") /\ env["hinge_fixed"].empty
    \/ script = "chain" /\ Has("carriage") /\ env["carriage"].empty

\* C8: construction never emits an empty part: once a boolean difference has
\* yielded nothing the script is stopped in its error state, with nothing
\* exported, nothing registered with the display and no animation step taken.
C8_AbortOnEmpty ==
    YieldedEmpty =>
        /\ pc = "error"
        /\ exported = {}
        /\ registered = NoGlobals
        /\ log = <<>>

Clamp(t, lo, hi) == IF Leq(t, Whole(lo)) THEN Whole(lo)
                    ELSE IF Leq(Whole(hi), t) THEN Whole(hi) ELSE t

\* C9: SliderJoint.apply clamps its offset: whatever t it is called with, the
\* carriage is posed with t clamped into [0, rail_length - carriage_length].
C9_SliderClamps ==
    (script = "chain" /\ Called("slider_joint.apply")) =>
        env["slider_joint"].carriage.pose =
            last["slider_joint.apply"][1]
            \o T(<<Whole(0), Whole(0),
                   Clamp(last["slider_joint.apply"][2], 0, rail_length - carriage_length)>>)

Lo(m) == IF m.axis = "X" THEN m.ext.xlo ELSE m.ext.zlo
Hi(m) == IF m.axis = "X" THEN m.ext.xhi ELSE m.ext.zhi

Overshoots(inner_, outer_) ==
    /\ inner_.axis = outer_.axis
    /\ (Hi(inner_) - Lo(inner_)) - (Hi(outer_) - Lo(outer_)) >= one_unit
    /\ Lo(inner_) < Lo(outer_)
    /\ Hi(outer_) < Hi(inner_)

\* C10: for every shell built as outer.difference(inner) (both hinge cradles,
\* the carriage) inner is at least one unit taller than outer and, as placed,
\* reaches strictly beyond outer at both ends of the axis.
C10_InnerOvershoots ==
    (ElbowShellBuilt \/ HingeShellBuilt \/ CarriageShellBuilt) =>
        Overshoots(env["inner"], env["outer"])

====
